---- MODULE Spec2Model ----
(***************************************************************************)
(* gitpkg: the package manager (src/gitpkg/pkg_manager.py) and the CLI     *)
(* commands built on it (src/gitpkg/cli.py, src/gitpkg/cli/add.py).        *)
(*                                                                         *)
(* The state is what outlives one invocation of the tool: the persisted    *)
(* config document .gitpkg.toml, the install artifacts                     *)
(* <dest.path>/<pkg.name>, the storage slots .gitpkgs/<ident>, the         *)
(* internal git directories .git/modules/<ident>, the registry file        *)
(* .gitmodules, and the upstream repositories.  Every command is one       *)
(* process: it loads the document (PkgManager.from_environment), runs, and *)
(* exits; the methods of PkgManager are operators on a record `w` (the     *)
(* world as the running process sees it).                                  *)
(***************************************************************************)
EXTENDS Integers, Sequences, FiniteSets, TLC

VARIABLES
    disk,        \* the persisted config document (.gitpkg.toml)
    art,         \* install location -> what sits at <dest.path>/<pkg.name>
    slot,        \* ident -> working tree of .gitpkgs/<ident> (tree 0: absent)
    internal,    \* ident -> .git/modules/<ident> (head 0: absent)
    gitmodules,  \* the registry file .gitmodules
    upstream,    \* url -> head commit of the remote repository (0: no repository)
    hist,        \* the last event and, for an install pass, the event before it
    ops          \* number of commands and outside events so far

vars == <<disk, art, slot, internal, gitmodules, upstream, hist, ops>>

-----------------------------------------------------------------------------
(* Bounds of the model *)

MaxOps == 4
MaxCommit == 2

-----------------------------------------------------------------------------
(* Universe *)

DestNames == {"libs", "vendor"}
PkgNames == {"depA", "depB"}
Urls == {"urlA", "urlB"}
None == "None"
DefaultBranch == "main"
ExistingRoots == {".", "sub"}   \* directories every commit of a remote holds
RemoteBranches == {DefaultBranch, "dev"}

\* Destination(name, path): src/gitpkg/config.py
Destination(name, path) == [name |-> name, path |-> path]

\* PkgConfig as pkg_manager.py reads it (url, package_root, updates_disabled,
\* branch, install_method)
PkgConfig(name, url, root, branch) ==
    [name |-> name, url |-> url, package_root |-> root,
     updates_disabled |-> FALSE, branch |-> branch, install_method |-> None]

NoPkg == [name |-> None]

\* <project>/<destination.path>/<pkg.name>
package_install_location(destination, pkg) == <<destination.path, pkg.name>>

\* first 32 hex digits of sha3_256 of the install location: one identifier per
\* location, an abstract token here
_package_ident(destination, pkg) ==
    <<"id", package_install_location(destination, pkg)>>

_get_pkg_gitpkgs_location(destination, pkg) == _package_ident(destination, pkg)

_gitmodules_internal_location(destination, pkg) == _package_ident(destination, pkg)

\* Path(repo.git_dir).parent: the absolute paths a checkout of the project can
\* lie at
ProjectRoots == {"/home/a/proj", "/srv/proj"}

\* pathlib's a / b: a "." component is dropped
JoinPath(a, b) == IF b = "." THEN a ELSE a \o "/" \o b

\* str(project_root_directory() / destination.path / pkg.name)
InstallPathUnder(root, destination, pkg) ==
    JoinPath(JoinPath(root, destination.path), pkg.name)

\* sha3_256(text).hexdigest()[0:32]: one digest per text
Sha3Hex32(text) == <<"sha3_256", text>>

\* _package_ident of a process whose project root is `root`
PackageIdentUnder(root, destination, pkg) ==
    Sha3Hex32(InstallPathUnder(root, destination, pkg))

\* the project root directory: its name, and its path relative to itself
RootName == "proj"
RootPath == "."

\* names a destination can carry, and paths one can lie at
ConfigNames == DestNames \cup {RootName}
DestPaths == DestNames \cup {RootPath}

Locations == DestPaths \X PkgNames
Idents == {<<"id", l>> : l \in Locations}

NoArt == [kind |-> "none"]
DirArt == [kind |-> "dir"]
\* project_root_directory(): Path(repo.git_dir).parent, an absolute path
project_root_directory == [absolute |-> TRUE, parts |-> <<RootName>>]

\* pathlib's a / b for relative components b
Div(a, b) == [a EXCEPT !.parts = @ \o b]

\* pkg_gitpkgs_dir / pkg.package_root (install_package, lines 212-214)
pkg_package_root_dir(ident, root) ==
    Div(project_root_directory,
        <<".gitpkgs", ident>> \o (IF root = "." THEN <<>> ELSE <<root>>))

\* a symbolic link whose stored target is <slot of ident>/<root>; `absolute`:
\* the stored target is an absolute path
LinkArt(ident, root) ==
    [kind |-> "link", ident |-> ident, root |-> root,
     absolute |-> pkg_package_root_dir(ident, root).absolute]

\* .git/modules/<ident>: HEAD commit and checked-out branch
NoInternal == [head |-> 0, branch |-> None]
InternalDir(head, branch) == [head |-> head, branch |-> branch]

\* .gitpkgs/<ident>: the commit its working tree holds; its .git is either a
\* gitdir pointer file ("file") or, right after a clone, a directory of its own
\* ("dir") with its own checked-out branch; `dirty`: the working tree holds
\* local modifications or untracked files
NoSlot == [tree |-> 0, git |-> None, branch |-> None, dirty |-> FALSE]
PointerSlot(tree) ==
    [tree |-> tree, git |-> "file", branch |-> None, dirty |-> FALSE]
CloneSlot(tree, branch) ==
    [tree |-> tree, git |-> "dir", branch |-> branch, dirty |-> FALSE]

-----------------------------------------------------------------------------
(* Filesystem predicates (pathlib) *)

\* Path.exists() of <slot>/<root>
SubpathExists(w, ident, root) ==
    w.slot[ident].tree # 0 /\ root \in ExistingRoots

\* Path.exists() follows symbolic links: a dangling link does not "exist"
PathExists(w, loc) ==
    LET a == w.art[loc] IN
    CASE a.kind = "none" -> FALSE
      [] a.kind = "dir" -> TRUE
      [] a.kind = "link" -> SubpathExists(w, a.ident, a.root)

\* Path.is_symlink() does not follow the link
IsSymlink(w, loc) == w.art[loc].kind = "link"

Raise(w, e) == [w EXCEPT !.err = e]

-----------------------------------------------------------------------------
(* Config operations of PkgManager *)

\* faulty variant: the document is not written
_write_config_skipped(w) == w

_write_config(w) ==
    [w EXCEPT !.disk = w.config, !.writes = Append(@, w.config)]

find_package(w, destination, pkg_name) ==
    LET s == w.config.packages[destination.name]
        hits == {i \in DOMAIN s : s[i].name = pkg_name}
    IN IF hits = {} THEN NoPkg
       ELSE s[CHOOSE i \in hits : \A j \in hits : i <= j]

\* faulty variant: no package is ever found
has_package_been_added_never(w, destination, pkg) == FALSE

has_package_been_added(w, destination, pkg) ==
    find_package(w, destination, pkg.name) # NoPkg

add_package(w, destination, pkg) ==
    IF w.err # None THEN w
    ELSE IF has_package_been_added(w, destination, pkg)
    THEN Raise(w, "PkgHasAlreadyBeenAddedError")
    ELSE _write_config(
            [w EXCEPT !.config.packages[destination.name] = Append(@, pkg)])

\* faulty variant: the entries after the removed one go with it
RemoveAt_tail(s, i) == SubSeq(s, 1, i - 1)

RemoveAt(s, i) == [j \in 1..(Len(s) - 1) |-> IF j < i THEN s[j] ELSE s[j + 1]]

remove_package(w, destination, pkg) ==
    IF w.err # None THEN w
    ELSE IF ~has_package_been_added(w, destination, pkg)
    THEN Raise(w, "UnknownPackageError")
    ELSE LET s == w.config.packages[destination.name]
             index == CHOOSE i \in DOMAIN s :
                         /\ s[i].name = pkg.name
                         /\ \A j \in 1..(i - 1) : s[j].name # pkg.name
         IN _write_config(
                [w EXCEPT !.config.packages[destination.name] = RemoveAt(s, index)])

NoDest == [name |-> None, path |-> None]

\* Path(rel).absolute(): a relative path is resolved against the working
\* directory of the process.  Paths are written relative to the project root,
\* "." being the project root itself.
Absolute(cwd, rel) == IF cwd = "." THEN rel ELSE cwd \o "/" \o rel

destination_by_name(w, name) ==
    LET s == w.config.destinations
        hits == {i \in DOMAIN s : s[i].name = name}
    IN IF hits = {} THEN NoDest
       ELSE s[CHOOSE i \in hits : \A j \in hits : i <= j]

\* faulty variant: the destination is returned but not recorded
add_destination_unrecorded(w, name, path) == w

add_destination(w, name, path) ==
    IF w.err # None THEN w
    ELSE LET s == w.config.destinations
             hits == {i \in DOMAIN s :
                         s[i].name = name \/ Absolute(w.cwd, s[i].path) = path}
             first == CHOOSE i \in hits : \A j \in hits : i <= j
         IN IF hits # {} /\ s[first].name = name
            THEN Raise(w, "DestinationWithNameAlreadyExistsError")
            ELSE IF hits # {}
            THEN Raise(w, "DestinationWithPathAlreadyExistsError")
            ELSE _write_config(
                   [w EXCEPT !.config.destinations =
                                Append(@, Destination(name, path))])

\* faulty variant: a package counts as installed only while its slot still
\* carries the .git directory of a fresh clone
is_package_installed_cloned(w, destination, pkg) ==
    /\ has_package_been_added(w, destination, pkg)
    /\ w.gitmodules.exists
    /\ PathExists(w, package_install_location(destination, pkg))
    /\ w.slot[_get_pkg_gitpkgs_location(destination, pkg)].git = "dir"
    /\ w.internal[_gitmodules_internal_location(destination, pkg)].head # 0

is_package_installed(w, destination, pkg) ==
    /\ has_package_been_added(w, destination, pkg)
    /\ w.gitmodules.exists
    /\ PathExists(w, package_install_location(destination, pkg))
    /\ w.slot[_get_pkg_gitpkgs_location(destination, pkg)].tree # 0
    /\ w.internal[_gitmodules_internal_location(destination, pkg)].head # 0

-----------------------------------------------------------------------------
(* ChangeDetector.  The result is "True", "False" or the exception raised. *)

\* Repo(slot).active_branch.name: Repo() raises NoSuchPathError on a missing
\* directory; a slot whose gitdir pointer leads to a missing internal directory
\* cannot be read either.  Both leave install_package through an exception
\* that is no GitPkgError.
active_branch(w, ident) ==
    IF w.slot[ident].tree = 0 THEN "NoSuchPathError"
    ELSE IF w.slot[ident].git = "dir" THEN w.slot[ident].branch
    ELSE IF w.internal[ident].head = 0 THEN "InvalidGitRepositoryError"
    ELSE w.internal[ident].branch

GitErrors == {"NoSuchPathError", "InvalidGitRepositoryError"}

BoolStr(b) == IF b THEN "True" ELSE "False"

\* faulty variant: a slot on another branch than the pinned one counts as a
\* change
_has_repo_changed_on_mismatch(w, destination, pkg) ==
    LET ident == _get_pkg_gitpkgs_location(destination, pkg)
        pkg_path == package_install_location(destination, pkg)
        head == IF pkg.branch # None THEN active_branch(w, ident) ELSE None
    IN IF head \in GitErrors THEN head
       ELSE IF pkg.branch # None /\ pkg.branch # head THEN "True"
       ELSE IF pkg.install_method \in {None, "link"} /\ ~IsSymlink(w, pkg_path)
       THEN "True"
       ELSE IF pkg.package_root # "" /\ IsSymlink(w, pkg_path)
       THEN BoolStr(<<ident, pkg.package_root>>
                        # <<w.art[pkg_path].ident, w.art[pkg_path].root>>)
       ELSE "False"

_has_repo_changed(w, destination, pkg) ==
    LET ident == _get_pkg_gitpkgs_location(destination, pkg)
        pkg_path == package_install_location(destination, pkg)
        head == IF pkg.branch # None THEN active_branch(w, ident) ELSE None
    IN IF head \in GitErrors THEN head
       ELSE IF pkg.branch # None /\ pkg.branch # head THEN "False"
       ELSE IF pkg.install_method \in {None, "link"} /\ ~IsSymlink(w, pkg_path)
       THEN "True"
       ELSE IF pkg.package_root # "" /\ IsSymlink(w, pkg_path)
       THEN BoolStr(<<ident, pkg.package_root>>
                        # <<w.art[pkg_path].ident, w.art[pkg_path].root>>)
       ELSE "False"

\* faulty variant: the recorded URL is not compared
has_pkg_been_changed_any_url(w, destination, pkg) ==
    LET ref_pkg == find_package(w, destination, pkg.name) IN
    IF ref_pkg = NoPkg THEN "UnknownPackageError"
    ELSE IF \/ ref_pkg.url # pkg.url
            \/ ref_pkg.package_root # pkg.package_root
            \/ ref_pkg.updates_disabled # pkg.updates_disabled
            \/ ref_pkg.branch # pkg.branch
            \/ ref_pkg.install_method # pkg.install_method
    THEN "True"
    ELSE _has_repo_changed(w, destination, pkg)

has_pkg_been_changed(w, destination, pkg) ==
    LET ref_pkg == find_package(w, destination, pkg.name) IN
    IF ref_pkg = NoPkg THEN "UnknownPackageError"
    ELSE IF ref_pkg.url # pkg.url THEN "PackageUrlChangedError"
    ELSE IF \/ ref_pkg.package_root # pkg.package_root
            \/ ref_pkg.updates_disabled # pkg.updates_disabled
            \/ ref_pkg.branch # pkg.branch
            \/ ref_pkg.install_method # pkg.install_method
    THEN "True"
    ELSE _has_repo_changed(w, destination, pkg)

-----------------------------------------------------------------------------
(* Filesystem and version-control steps *)

\* if install_dir.exists(): install_dir.unlink()
\* (unlink() of a real directory raises IsADirectoryError)
UnlinkIfExists(w, loc) ==
    IF w.err # None \/ ~PathExists(w, loc) THEN w
    ELSE IF w.art[loc].kind = "dir" THEN Raise(w, "IsADirectoryError")
    ELSE [w EXCEPT !.art[loc] = NoArt]

\* faulty variant: the storage slot is left in place
RmtreeSlot_kept(w, ident) == w

\* if path.exists(): shutil.rmtree(path), for a storage slot
RmtreeSlot(w, ident) ==
    IF w.err # None THEN w ELSE [w EXCEPT !.slot[ident] = NoSlot]

\* if internal_dir.exists(): shutil.rmtree(internal_dir)
RmtreeInternal(w, ident) ==
    IF w.err # None THEN w ELSE [w EXCEPT !.internal[ident] = NoInternal]

\* faulty variant: every section is removed, and the file with them
_remove_pkg_from_gitmodules_all(w, destination, pkg) ==
    IF w.err # None \/ ~w.gitmodules.exists THEN w
    ELSE [w EXCEPT !.gitmodules = [exists |-> FALSE, sections |-> {}]]

_remove_pkg_from_gitmodules(w, destination, pkg) ==
    IF w.err # None \/ ~w.gitmodules.exists THEN w
    ELSE LET left == w.gitmodules.sections \ {_package_ident(destination, pkg)}
         IN [w EXCEPT !.gitmodules = [exists |-> left # {}, sections |-> left]]

\* Repo.create_submodule(name, path, url, branch): git clone
\* --separate-git-dir=.git/modules/<name> [-b branch] url path, then the
\* section submodule "<name>" is written to .gitmodules
create_submodule(w, ident, url, branch) ==
    IF w.err # None THEN w
    ELSE IF upstream[url] = 0 \/ (branch # None /\ branch \notin RemoteBranches)
    THEN Raise(w, "GitCommandError")
    ELSE [w EXCEPT
            !.slot[ident] = PointerSlot(upstream[url]),
            !.internal[ident] =
                InternalDir(upstream[url],
                            IF branch = None THEN DefaultBranch ELSE branch),
            !.gitmodules = [exists |-> TRUE, sections |-> @.sections \cup {ident}]]

\* Repo.clone_from(internal_dir, pkg_gitpkgs_dir): the clone checks out the
\* HEAD of the internal directory
clone_from_internal(w, ident) ==
    IF w.err # None THEN w
    ELSE [w EXCEPT !.slot[ident] =
                      CloneSlot(w.internal[ident].head, w.internal[ident].branch)]

\* faulty variant: the clone keeps its own .git directory
write_gitdir_pointer_skipped(w, ident) == w

\* shutil.rmtree(gitdir); gitdir.write_text("gitdir: <rel_path>")
write_gitdir_pointer(w, ident) ==
    IF w.err # None THEN w
    ELSE [w EXCEPT !.slot[ident] = PointerSlot(w.slot[ident].tree)]

\* install_dir.symlink_to(pkg_package_root_dir)
symlink_to(w, loc, ident, root) ==
    IF w.err # None THEN w
    ELSE IF w.art[loc].kind # "none" THEN Raise(w, "FileExistsError")
    ELSE [w EXCEPT !.art[loc] = LinkArt(ident, root)]

-----------------------------------------------------------------------------
(* Reconciler: install_package, one operator per step of its body.  `w.changed` *)
(* is the local has_pkg_changed.                                            *)

\* lines 199-200
InstallRegister(w, destination, pkg) ==
    IF w.err # None \/ has_package_been_added(w, destination, pkg) THEN w
    ELSE add_package(w, destination, pkg)

\* line 202
InstallDetect(w, destination, pkg) ==
    IF w.err # None THEN w
    ELSE LET r == has_pkg_been_changed(w, destination, pkg) IN
         IF r \in {"True", "False"} THEN [w EXCEPT !.changed = (r = "True")]
         ELSE Raise(w, r)

\* lines 204-206
InstallReplaceRemove(w, destination, pkg) ==
    IF w.err # None \/ ~w.changed THEN w
    ELSE remove_package(w, destination, pkg)

\* faulty variant: the new entry is put in front of the others
InstallReplaceAdd_front(w, destination, pkg) ==
    IF w.err # None \/ ~w.changed THEN w
    ELSE _write_config(
            [w EXCEPT !.config.packages[destination.name] = <<pkg>> \o @])

\* line 207
InstallReplaceAdd(w, destination, pkg) ==
    IF w.err # None \/ ~w.changed THEN w
    ELSE add_package(w, destination, pkg)

\* faulty variant: an installed package is installed again without complaint
InstallAlready_skipped(w, destination, pkg) == w

\* lines 209-210
InstallAlready(w, destination, pkg) ==
    IF w.err # None THEN w
    ELSE IF ~w.changed /\ is_package_installed(w, destination, pkg)
    THEN Raise(w, "PackageAlreadyInstalledError")
    ELSE w

\* lines 220-221
InstallUnlinkOld(w, destination, pkg) ==
    UnlinkIfExists(w, package_install_location(destination, pkg))

\* lines 223-224
InstallRemoveSlot(w, destination, pkg) ==
    RmtreeSlot(w, _get_pkg_gitpkgs_location(destination, pkg))

\* faulty variant: an orphaned internal directory is kept and cloned from
InstallDiscardOrphan_kept(w, destination, pkg) == w

\* lines 228-230: an internal directory without .gitmodules is orphaned
InstallDiscardOrphan(w, destination, pkg) ==
    LET ident == _gitmodules_internal_location(destination, pkg) IN
    IF w.err # None THEN w
    ELSE IF w.internal[ident].head # 0 /\ ~w.gitmodules.exists
    THEN RmtreeInternal(w, ident)
    ELSE w

\* line 233 (internal directory present) or line 243 (absent)
InstallCloneOrUnregister(w, destination, pkg) ==
    LET ident == _gitmodules_internal_location(destination, pkg) IN
    IF w.err # None THEN w
    ELSE IF w.internal[ident].head # 0 THEN clone_from_internal(w, ident)
    ELSE _remove_pkg_from_gitmodules(w, destination, pkg)

\* lines 235-241 (internal directory present) or lines 244-249 (absent)
InstallPointerOrSubmodule(w, destination, pkg) ==
    LET ident == _gitmodules_internal_location(destination, pkg) IN
    IF w.err # None THEN w
    ELSE IF w.internal[ident].head # 0 THEN write_gitdir_pointer(w, ident)
    ELSE create_submodule(w, ident, pkg.url, pkg.branch)

\* lines 251-252
InstallCheckRoot(w, destination, pkg) ==
    IF w.err # None THEN w
    ELSE IF ~SubpathExists(w, _get_pkg_gitpkgs_location(destination, pkg),
                           pkg.package_root)
    THEN Raise(w, "PackageRootDirNotFoundError")
    ELSE w

\* lines 254-255
InstallUnlinkAgain(w, destination, pkg) ==
    UnlinkIfExists(w, package_install_location(destination, pkg))

\* line 257
InstallLink(w, destination, pkg) ==
    symlink_to(w, package_install_location(destination, pkg),
               _get_pkg_gitpkgs_location(destination, pkg), pkg.package_root)

InstallSteps == 13

\* the world after the first k steps of install_package(destination, pkg)
RECURSIVE InstallPrefix(_, _, _, _)
InstallPrefix(w, destination, pkg, k) ==
    IF k = 0 THEN [w EXCEPT !.changed = FALSE]
    ELSE LET v == InstallPrefix(w, destination, pkg, k - 1) IN
         CASE k = 1 -> InstallRegister(v, destination, pkg)
           [] k = 2 -> InstallDetect(v, destination, pkg)
           [] k = 3 -> InstallReplaceRemove(v, destination, pkg)
           [] k = 4 -> InstallReplaceAdd(v, destination, pkg)
           [] k = 5 -> InstallAlready(v, destination, pkg)
           [] k = 6 -> InstallUnlinkOld(v, destination, pkg)
           [] k = 7 -> InstallRemoveSlot(v, destination, pkg)
           [] k = 8 -> InstallDiscardOrphan(v, destination, pkg)
           [] k = 9 -> InstallCloneOrUnregister(v, destination, pkg)
           [] k = 10 -> InstallPointerOrSubmodule(v, destination, pkg)
           [] k = 11 -> InstallCheckRoot(v, destination, pkg)
           [] k = 12 -> InstallUnlinkAgain(v, destination, pkg)
           [] k = 13 -> InstallLink(v, destination, pkg)

install_package(w, destination, pkg) ==
    InstallPrefix(w, destination, pkg, InstallSteps)

-----------------------------------------------------------------------------
(* Uninstaller *)

uninstall_package(w, destination, pkg) ==
    LET ident == _package_ident(destination, pkg)
        w1 == RmtreeInternal(w, ident)
        w2 == UnlinkIfExists(w1, package_install_location(destination, pkg))
        w3 == RmtreeSlot(w2, ident)
        w4 == _remove_pkg_from_gitmodules(w3, destination, pkg)
    IN IF w4.err = None /\ has_package_been_added(w4, destination, pkg)
       THEN remove_package(w4, destination, pkg)
       ELSE w4

-----------------------------------------------------------------------------
(* Updater (section 4.6 of the design; VersionControlHost of section 6) *)

\* discardLocalChanges(path): local modifications and untracked files go
discardLocalChanges(w, ident) ==
    IF w.err # None THEN w ELSE [w EXCEPT !.slot[ident].dirty = FALSE]

\* fastForward(path, branch): the working tree of the slot, and the git
\* directory its pointer leads to, advance to the latest commit of the remote
fastForward(w, ident, url) ==
    IF w.err # None THEN w
    ELSE IF w.slot[ident].tree = 0 THEN Raise(w, "NotAGitRepositoryError")
    ELSE [w EXCEPT !.slot[ident].tree = upstream[url],
                   !.internal[ident].head =
                       IF w.slot[ident].git = "file" /\ @ # 0
                       THEN upstream[url] ELSE @]

\* faulty variant: local modifications never hold an update back
UpdateBlocked_never(w, ident, force) == FALSE

\* an update that would overwrite local modifications or untracked files is
\* skipped unless forced
UpdateBlocked(w, ident, force) == w.slot[ident].dirty /\ ~force

\* faulty variant: the updates-disabled flag is not looked at
update_flag_ignored(w, destination, pkg, force) ==
    LET ident == _get_pkg_gitpkgs_location(destination, pkg) IN
    IF w.err # None THEN w
    ELSE IF UpdateBlocked(w, ident, force) THEN w
    ELSE fastForward(
            IF force THEN discardLocalChanges(w, ident) ELSE w, ident, pkg.url)

\* update(destination, spec, force)
update(w, destination, pkg, force) ==
    LET ident == _get_pkg_gitpkgs_location(destination, pkg) IN
    IF w.err # None THEN w
    ELSE IF pkg.updates_disabled /\ ~force THEN w
    ELSE IF UpdateBlocked(w, ident, force) THEN w
    ELSE fastForward(
            IF force THEN discardLocalChanges(w, ident) ELSE w, ident, pkg.url)

\* update [name] [--force]: every registered package, or the packages of that
\* name, in the order of the config document
RECURSIVE UpdatePass(_, _, _, _)
UpdatePass(w, work, name, force) ==
    IF work = <<>> \/ w.err # None THEN w
    ELSE LET dest == work[1][1]
             pkg == work[1][2]
         IN IF name # None /\ pkg.name # name
            THEN UpdatePass(w, Tail(work), name, force)
            ELSE UpdatePass(
                    update([w EXCEPT !.calls =
                               @ \cup {package_install_location(dest, pkg)}],
                           dest, pkg, force),
                    Tail(work), name, force)

-----------------------------------------------------------------------------
(* CLI commands.  Each runs in a process of its own on the loaded document. *)

\* command_install, lines 415-431, over the (destination, package) pairs that
\* are left; `calls` collects the locations install_package was called for
RECURSIVE InstallPass(_, _)
InstallPass(w, work) ==
    IF work = <<>> \/ w.err # None THEN w
    ELSE LET dest == work[1][1]
             pkg == work[1][2]
             has_pkg_changed == has_pkg_been_changed(w, dest, pkg)
             already_installed == is_package_installed(w, dest, pkg)
         IN IF has_pkg_changed \notin {"True", "False"}
            THEN Raise(w, has_pkg_changed)
            ELSE IF already_installed /\ has_pkg_changed = "False"
            THEN InstallPass(w, Tail(work))
            ELSE InstallPass(
                    install_package(
                        [w EXCEPT !.calls =
                            @ \cup {package_install_location(dest, pkg)}],
                        dest, pkg),
                    Tail(work))

\* for dest in destinations(): for pkg in packages_by_destination(dest)
RECURSIVE Worklist(_, _)
Worklist(config, i) ==
    IF i > Len(config.destinations) THEN <<>>
    ELSE LET dest == config.destinations[i]
             pkgs == config.packages[dest.name]
         IN [j \in 1..Len(pkgs) |-> <<dest, pkgs[j]>>] \o Worklist(config, i + 1)

command_install(w) == InstallPass(w, Worklist(w.config, 1))

command_update(w, name, force) ==
    UpdatePass(w, Worklist(w.config, 1), name, force)

\* helper of the CLI: the destination named, or the only destination, or none
determine_package_destination(w, dest_name) ==
    IF dest_name # None THEN destination_by_name(w, dest_name)
    ELSE IF Len(w.config.destinations) = 1 THEN w.config.destinations[1]
    ELSE NoDest

\* cmd_add, lines 69-79: the destination the package goes to, registering the
\* current directory when no destination is known
AddResolve(w, dest_name, cwd) ==
    LET dest == determine_package_destination(w, dest_name) IN
    IF dest = NoDest /\ Len(w.config.destinations) = 0
    THEN add_destination([w EXCEPT !.cwd = cwd], cwd, cwd)
    ELSE IF dest = NoDest THEN Raise(w, "AmbiguousDestinationError")
    ELSE w

AddDest(w, dest_name, cwd) ==
    LET dest == determine_package_destination(w, dest_name) IN
    IF dest = NoDest THEN Destination(cwd, cwd) ELSE dest

\* cmd_add, lines 89-90
AddRegister(w, dest, pkg) ==
    IF w.err # None \/ has_package_been_added(w, dest, pkg) THEN w
    ELSE add_package(w, dest, pkg)

\* cmd_add, lines 94-106
AddInstall(w, dest, pkg) ==
    LET v == install_package(w, dest, pkg) IN
    IF v.err = "PackageRootDirNotFoundError"
    THEN [remove_package([v EXCEPT !.err = None], dest, pkg)
             EXCEPT !.err = "PackageRootDirNotFoundError"]
    ELSE v

cmd_add(w, dest_name, pkg, cwd) ==
    LET w1 == AddResolve(w, dest_name, cwd)
        dest == AddDest(w, dest_name, cwd)
    IN IF w1.err # None THEN w1
       ELSE AddInstall(AddRegister(w1, dest, pkg), dest, pkg)

\* Path.name of a working directory
DirName(cwd) == IF cwd = RootPath THEN RootName ELSE cwd

\* faulty variant: a single registered destination is not picked
CommandAddPick_unnamed(w, dest_name) ==
    IF dest_name # None THEN destination_by_name(w, dest_name) ELSE NoDest

\* CLI.command_add, lines 242-250: the destination picked before the current
\* directory is considered
CommandAddPick(w, dest_name) ==
    IF dest_name # None THEN destination_by_name(w, dest_name)
    ELSE IF Len(w.config.destinations) = 1 THEN w.config.destinations[1]
    ELSE NoDest

\* CLI.command_add, lines 242-258
CommandAddResolve(w, dest_name, cwd) ==
    LET dest == CommandAddPick(w, dest_name) IN
    IF dest_name # None /\ dest = NoDest
    THEN Raise(w, "CouldNotFindDestinationError")
    ELSE IF dest = NoDest
    THEN add_destination([w EXCEPT !.cwd = cwd], DirName(cwd), cwd)
    ELSE w

CommandAddDest(w, dest_name, cwd) ==
    LET dest == CommandAddPick(w, dest_name) IN
    IF dest = NoDest THEN Destination(DirName(cwd), cwd) ELSE dest

\* CLI.command_add, lines 242-294
command_add(w, dest_name, pkg, cwd) ==
    LET w1 == CommandAddResolve(w, dest_name, cwd)
        dest == CommandAddDest(w, dest_name, cwd)
    IN IF w1.err # None THEN w1
       ELSE install_package(AddRegister(w1, dest, pkg), dest, pkg)

\* CLI.command_remove, lines 370-388: the destination the package is removed
\* from (NoDest: none found)
CommandRemoveDest(w, package, dest_name) ==
    LET s == w.config.destinations
        named == destination_by_name(w, package)
        holders == {i \in DOMAIN s : find_package(w, s[i], package) # NoPkg}
    IN IF named # NoDest THEN named
       ELSE IF dest_name = None /\ Len(s) = 1 THEN s[1]
       ELSE IF Len(s) > 1 /\ holders # {}
       THEN s[CHOOSE i \in holders : \A j \in holders : i <= j]
       ELSE NoDest

\* CLI.command_remove, lines 370-406; fatal() ends the process
command_remove(w, package, dest_name) ==
    LET dest == CommandRemoveDest(w, package, dest_name) IN
    IF Len(w.config.destinations) = 0 THEN w
    ELSE IF dest = NoDest \/ find_package(w, dest, package) = NoPkg
    THEN Raise(w, "fatal")
    ELSE uninstall_package(w, dest, find_package(w, dest, package))

-----------------------------------------------------------------------------
(* State *)

NoLoc == <<None, None>>

\* an event of the history: the command or outside change that happened last
NoEv ==
    [op |-> "none", err |-> None, loc |-> NoLoc, pkg |-> NoPkg, kind |-> None,
     reg |-> FALSE, full |-> FALSE, tree |-> 0, calls |-> {}, sync |-> TRUE,
     dest |-> None, force |-> FALSE, ident |-> None]

\* PkgManager.from_environment: the process starts from the persisted document
Cur ==
    [config |-> disk, disk |-> disk, writes |-> <<>>, art |-> art, slot |-> slot,
     internal |-> internal, gitmodules |-> gitmodules, err |-> None,
     changed |-> FALSE, calls |-> {}, cwd |-> "."]

DestAtPath(w, path) ==
    LET s == w.config.destinations
        hits == {i \in DOMAIN s : s[i].path = path}
    IN IF hits = {} THEN NoDest ELSE s[CHOOSE i \in hits : TRUE]

Registered(w, loc) ==
    /\ DestAtPath(w, loc[1]) # NoDest
    /\ find_package(w, DestAtPath(w, loc[1]), loc[2]) # NoPkg

RecordedPkg(w, loc) == find_package(w, DestAtPath(w, loc[1]), loc[2])

\* the state a successful install_package leaves a package in
FullyInstalled(w, loc) ==
    /\ Registered(w, loc)
    /\ LET pkg == RecordedPkg(w, loc)
           ident == _package_ident(DestAtPath(w, loc[1]), pkg)
       IN /\ w.art[loc] = LinkArt(ident, pkg.package_root)
          /\ SubpathExists(w, ident, pkg.package_root)
          /\ w.slot[ident].git = "file"
          /\ w.internal[ident].head # 0
          /\ w.gitmodules.exists
          /\ ident \in w.gitmodules.sections

RegisteredLocs(w) == {l \in Locations : Registered(w, l)}

AllFullyInstalled(w) == \A l \in RegisteredLocs(w) : FullyInstalled(w, l)

IdentOf(loc) == <<"id", loc>>

Init ==
    /\ disk = [destinations |-> <<>>, packages |-> [d \in ConfigNames |-> <<>>]]
    /\ art = [l \in Locations |-> NoArt]
    /\ slot = [i \in Idents |-> NoSlot]
    /\ internal = [i \in Idents |-> NoInternal]
    /\ gitmodules = [exists |-> FALSE, sections |-> {}]
    /\ upstream = [u \in Urls |-> 1]
    /\ hist = [last |-> NoEv, prev |-> NoEv]
    /\ ops = 0

\* the process ends (normally, with a reported error, or killed): what it wrote
\* stays; `sync` records whether its in-memory Config equals the document
Leave(w, ev, prev) ==
    /\ disk' = w.disk
    /\ art' = w.art
    /\ slot' = w.slot
    /\ internal' = w.internal
    /\ gitmodules' = w.gitmodules
    /\ hist' = [last |-> [ev EXCEPT !.sync = (w.config = w.disk)], prev |-> prev]
    /\ ops' = ops + 1
    /\ UNCHANGED upstream

-----------------------------------------------------------------------------
(* Inputs *)

Cwd == "libs"

\* the packages `add` is called with
AddSpecs ==
    { PkgConfig("depA", "urlA", ".", None),
      PkgConfig("depA", "urlA", "sub", None),
      PkgConfig("depA", "urlA", ".", "dev"),
      PkgConfig("depA", "urlA", "nope", None),
      PkgConfig("depA", "urlB", ".", None),
      PkgConfig("depB", "urlB", ".", None) }

-----------------------------------------------------------------------------
(* Actions: commands *)

\* git pkg dest add <name>
CmdDestRegister(name) ==
    /\ ops < MaxOps
    /\ LET w == add_destination(Cur, name, name)
       IN Leave(w, [NoEv EXCEPT !.op = "dest", !.err = w.err], NoEv)

\* the directories `dest add` is run from and the paths it is given
WorkDirs == {".", "sub"}

\* git pkg dest add <arg> [--name <name>], run in the directory cwd
CmdDestRegisterIn(cwd, arg, name) ==
    /\ ops < MaxOps
    /\ LET dest_path == Absolute(cwd, arg)
           w == add_destination([Cur EXCEPT !.cwd = cwd],
                                IF name = None THEN arg ELSE name, dest_path)
       IN Leave(w, [NoEv EXCEPT !.op = "dest", !.err = w.err, !.kind = cwd], NoEv)

\* git pkg add <url> --name .. [--dest-name ..] [-r ..] [-b ..]
CmdAdd(dest_name, pkg) ==
    /\ ops < MaxOps
    /\ LET w == cmd_add(Cur, dest_name, pkg, Cwd)
           dest == AddDest(Cur, dest_name, Cwd)
           loc == package_install_location(dest, pkg)
       IN Leave(w, [NoEv EXCEPT !.op = "add", !.err = w.err, !.pkg = pkg,
                                !.dest = dest_name, !.kind = Cwd,
                                !.loc = IF AddResolve(Cur, dest_name, Cwd).err = None
                                        THEN loc ELSE NoLoc],
                NoEv)

\* the process of `add` is terminated after step k of install_package
KillAdd(dest_name, pkg, k) ==
    /\ ops < MaxOps
    /\ LET w1 == AddResolve(Cur, dest_name, Cwd)
           dest == AddDest(Cur, dest_name, Cwd)
           loc == package_install_location(dest, pkg)
           w == InstallPrefix(AddRegister(w1, dest, pkg), dest, pkg, k)
       IN /\ w.err = None
          /\ Leave(w, [NoEv EXCEPT !.op = "kill", !.err = "killed", !.pkg = pkg,
                                   !.loc = loc, !.reg = Registered(Cur, loc)],
                   NoEv)

\* the specs the argparse CLI is called with
CommandAddSpecs ==
    { PkgConfig("depA", "urlA", ".", None),
      PkgConfig("depB", "urlB", ".", None) }

\* git pkg add <url> [--dest-name ..] of the argparse CLI, run in cwd
CommandAdd(dest_name, pkg, cwd) ==
    /\ ops < MaxOps
    /\ LET w == command_add(Cur, dest_name, pkg, cwd)
           dest == CommandAddDest(Cur, dest_name, cwd)
       IN Leave(w, [NoEv EXCEPT !.op = "command_add", !.err = w.err, !.pkg = pkg,
                                !.dest = dest_name, !.kind = cwd,
                                !.loc = IF CommandAddResolve(Cur, dest_name, cwd).err = None
                                        THEN package_install_location(dest, pkg)
                                        ELSE NoLoc],
                NoEv)

\* what `remove` can be given as its package argument: a name, or <dest>/<name>
RemoveArgs == PkgNames \cup {"vendor/depA"}

\* the package `remove <arg> [--dest-name <dest_name>]` names
RemoveTarget(arg, dest_name) ==
    IF arg = "vendor/depA" THEN [dest |-> "vendor", name |-> "depA"]
    ELSE [dest |-> dest_name, name |-> arg]

\* git pkg remove <arg> [--dest-name ..]
CommandRemove(arg, dest_name) ==
    /\ ops < MaxOps
    /\ LET w == command_remove(Cur, arg, dest_name)
           t == RemoveTarget(arg, dest_name)
       IN Leave(w, [NoEv EXCEPT !.op = "remove", !.err = w.err,
                                !.pkg = [name |-> t.name], !.dest = t.dest],
                NoEv)

\* PkgManager.uninstall_package(destination, pkg), as `remove` calls it
Uninstall(loc) ==
    /\ ops < MaxOps
    /\ DestAtPath(Cur, loc[1]) # NoDest
    /\ LET dest == DestAtPath(Cur, loc[1])
           found == find_package(Cur, dest, loc[2])
           pkg == IF found = NoPkg THEN PkgConfig(loc[2], "urlA", ".", None)
                  ELSE found
           w == uninstall_package(Cur, dest, pkg)
       IN Leave(w, [NoEv EXCEPT !.op = "uninstall", !.err = w.err, !.loc = loc],
                IF hist.last.op = "uninstall" THEN hist.last ELSE NoEv)

\* git pkg install
CmdInstall ==
    /\ ops < MaxOps
    /\ LET w == command_install(Cur)
       IN Leave(w, [NoEv EXCEPT !.op = "install", !.err = w.err,
                                !.calls = w.calls],
                hist.last)

-----------------------------------------------------------------------------
(* Actions: changes from outside the tool *)

Outside(ev) ==
    /\ hist' = [last |-> ev, prev |-> NoEv]
    /\ ops' = ops + 1
    /\ UNCHANGED <<disk, upstream>>

DriftEvent(kind, loc) ==
    [NoEv EXCEPT !.op = "drift", !.kind = kind, !.loc = loc,
                 !.full = AllFullyInstalled(Cur) /\ Registered(Cur, loc),
                 !.tree = slot[IdentOf(loc)].tree]

\* rm -rf .gitpkgs/<ident>
DeleteSlot(loc) ==
    /\ ops < MaxOps
    /\ slot[IdentOf(loc)].tree # 0
    /\ slot' = [slot EXCEPT ![IdentOf(loc)] = NoSlot]
    /\ Outside(DriftEvent("slot", loc))
    /\ UNCHANGED <<art, internal, gitmodules>>

\* rm -rf .git/modules/<ident>
DeleteInternal(loc) ==
    /\ ops < MaxOps
    /\ internal[IdentOf(loc)].head # 0
    /\ internal' = [internal EXCEPT ![IdentOf(loc)] = NoInternal]
    /\ Outside(DriftEvent("internal", loc))
    /\ UNCHANGED <<art, slot, gitmodules>>

\* rm .gitmodules: the entry of loc goes with the file
DeleteGitmodules(loc) ==
    /\ ops < MaxOps
    /\ gitmodules.exists
    /\ IdentOf(loc) \in gitmodules.sections
    /\ gitmodules' = [exists |-> FALSE, sections |-> {}]
    /\ Outside(DriftEvent("gitmodules", loc))
    /\ UNCHANGED <<art, slot, internal>>

\* the section of loc is edited out of .gitmodules; the file stays
DeleteSection(loc) ==
    /\ ops < MaxOps
    /\ IdentOf(loc) \in gitmodules.sections
    /\ gitmodules' = [gitmodules EXCEPT !.sections = @ \ {IdentOf(loc)}]
    /\ Outside(DriftEvent("section", loc))
    /\ UNCHANGED <<art, slot, internal>>

\* the artifact is replaced by a real directory (a copy of the content)
ReplaceByDirectory(loc) ==
    /\ ops < MaxOps
    /\ art[loc].kind = "link"
    /\ art' = [art EXCEPT ![loc] = DirArt]
    /\ Outside(DriftEvent("directory", loc))
    /\ UNCHANGED <<slot, internal, gitmodules>>

\* a commit is pushed to the remote repository
UpstreamCommit(url) ==
    /\ ops < MaxOps
    /\ upstream[url] # 0
    /\ upstream[url] < MaxCommit
    /\ upstream' = [upstream EXCEPT ![url] = @ + 1]
    /\ hist' = [last |-> [NoEv EXCEPT !.op = "upstream"], prev |-> NoEv]
    /\ ops' = ops + 1
    /\ UNCHANGED <<disk, art, slot, internal, gitmodules>>

\* the specs `add` is called with next to `update`: depA with updates
\* disabled, depB with updates enabled, both from the same remote
UpdateSpecs ==
    { [PkgConfig("depA", "urlA", ".", None) EXCEPT !.updates_disabled = TRUE],
      PkgConfig("depB", "urlA", ".", None),
      PkgConfig("depB", "urlB", ".", None) }

\* git pkg update [name] [--force]
CmdUpdate(name, force) ==
    /\ ops < MaxOps
    /\ LET w == command_update(Cur, name, force)
       IN Leave(w, [NoEv EXCEPT !.op = "update", !.err = w.err,
                                !.pkg = [name |-> name], !.force = force,
                                !.calls = w.calls],
                NoEv)

\* a file of the working tree .gitpkgs/<ident> is edited, or one is created
ModifySlot(loc) ==
    /\ ops < MaxOps
    /\ slot[IdentOf(loc)].tree # 0
    /\ ~slot[IdentOf(loc)].dirty
    /\ slot' = [slot EXCEPT ![IdentOf(loc)].dirty = TRUE]
    /\ Outside([NoEv EXCEPT !.op = "modify", !.loc = loc])
    /\ UNCHANGED <<art, internal, gitmodules>>

\* the methods an entry of the config document can name
EditMethods == {None, "copy"}

\* .gitpkg.toml is edited by hand: the entry recorded for loc gets another
\* package-root or install-method
EditConfig(loc, root, method) ==
    /\ ops < MaxOps
    /\ Registered(Cur, loc)
    /\ LET dest == DestAtPath(Cur, loc[1])
           old == RecordedPkg(Cur, loc)
           new == [old EXCEPT !.package_root = root, !.install_method = method]
           s == disk.packages[dest.name]
       IN /\ new # old
          /\ disk' = [disk EXCEPT !.packages[dest.name] =
                         [j \in DOMAIN s |-> IF s[j].name = loc[2] THEN new ELSE s[j]]]
          /\ hist' = [last |-> [NoEv EXCEPT !.op = "edit", !.loc = loc, !.pkg = new,
                                            !.kind = old.package_root,
                                            !.full = AllFullyInstalled(Cur)],
                      prev |-> NoEv]
    /\ ops' = ops + 1
    /\ UNCHANGED <<art, slot, internal, gitmodules, upstream>>

Next ==
    \/ \E name \in DestNames : CmdDestRegister(name)
    \/ \E dest_name \in DestNames \cup {None}, pkg \in AddSpecs :
          CmdAdd(dest_name, pkg)
    \/ \E loc \in Locations : Uninstall(loc)
    \/ CmdInstall
    \/ \E loc \in Locations : DeleteSlot(loc)
    \/ \E loc \in Locations : DeleteInternal(loc)
    \/ \E loc \in Locations : DeleteGitmodules(loc)
    \/ \E loc \in Locations : DeleteSection(loc)
    \/ \E loc \in Locations : ReplaceByDirectory(loc)
    \/ \E url \in Urls : UpstreamCommit(url)

Spec == Init /\ [][Next]_vars

\* the same commands, with processes that can be terminated partway
NextKill ==
    \/ Next
    \/ \E dest_name \in DestNames \cup {None}, pkg \in AddSpecs,
          k \in 1..(InstallSteps - 1) : KillAdd(dest_name, pkg, k)

SpecKill == Init /\ [][NextKill]_vars

\* the commands next to hand edits of the config document
NextEdit ==
    \/ \E pkg \in AddSpecs : CmdAdd(None, pkg)
    \/ CmdInstall
    \/ \E loc \in Locations, root \in ExistingRoots, method \in EditMethods :
          EditConfig(loc, root, method)
    \/ \E loc \in Locations : DeleteSlot(loc)
    \/ \E url \in Urls : UpstreamCommit(url)

SpecEdit == Init /\ [][NextEdit]_vars

\* `update` next to `add`, local modifications and new commits of the remotes
NextUpdate ==
    \/ \E pkg \in UpdateSpecs : CmdAdd(None, pkg)
    \/ \E name \in PkgNames \cup {None}, force \in BOOLEAN : CmdUpdate(name, force)
    \/ \E loc \in Locations : ModifySlot(loc)
    \/ \E url \in Urls : UpstreamCommit(url)

SpecUpdate == Init /\ [][NextUpdate]_vars

\* a process started in a checkout at `root` computes the identity of a package
IdentifyIn(root, destination, pkg) ==
    /\ ops < MaxOps
    /\ hist' = [last |-> [NoEv EXCEPT
                            !.op = "ident", !.kind = root, !.pkg = pkg,
                            !.dest = destination.name,
                            !.loc = <<destination.path, pkg.name>>,
                            !.ident = PackageIdentUnder(root, destination, pkg)],
                prev |-> hist.last]
    /\ ops' = ops + 1
    /\ UNCHANGED <<disk, art, slot, internal, gitmodules, upstream>>

\* identities computed by several processes, in checkouts at several places
NextIdent ==
    \E root \in ProjectRoots, name \in DestNames, path \in DestPaths,
       pkg \in AddSpecs :
        IdentifyIn(root, Destination(name, path), pkg)

SpecIdent == Init /\ [][NextIdent]_vars

\* destinations registered from several working directories
NextDest ==
    \E cwd \in WorkDirs, arg \in DestNames, name \in DestNames \cup {None} :
        CmdDestRegisterIn(cwd, arg, name)

SpecDest == Init /\ [][NextDest]_vars

\* the commands of the argparse CLI (cli.py) next to `add` of cli/add.py
NextCli ==
    \/ \E name \in DestNames : CmdDestRegister(name)
    \/ \E dest_name \in DestNames \cup {None}, pkg \in CommandAddSpecs,
          cwd \in {RootPath, Cwd} : CommandAdd(dest_name, pkg, cwd)
    \/ \E pkg \in CommandAddSpecs : CmdAdd(None, pkg)
    \/ \E arg \in RemoveArgs, dest_name \in DestNames \cup {None} :
          CommandRemove(arg, dest_name)
    \/ CmdInstall

SpecCli == Init /\ [][NextCli]_vars

\* a URL behind which there is no repository
MissingUrl == "urlB"

InitNoRepo ==
    /\ disk = [destinations |-> <<>>, packages |-> [d \in ConfigNames |-> <<>>]]
    /\ art = [l \in Locations |-> NoArt]
    /\ slot = [i \in Idents |-> NoSlot]
    /\ internal = [i \in Idents |-> NoInternal]
    /\ gitmodules = [exists |-> FALSE, sections |-> {}]
    /\ upstream = [u \in Urls |-> IF u = MissingUrl THEN 0 ELSE 1]
    /\ hist = [last |-> NoEv, prev |-> NoEv]
    /\ ops = 0

\* the commands in a project one of whose remotes does not exist
NextNoRepo ==
    \/ \E name \in DestNames : CmdDestRegister(name)
    \/ \E dest_name \in DestNames \cup {None}, pkg \in AddSpecs :
          CmdAdd(dest_name, pkg)
    \/ \E loc \in Locations : Uninstall(loc)
    \/ CmdInstall
    \/ \E url \in Urls : UpstreamCommit(url)

SpecNoRepo == InitNoRepo /\ [][NextNoRepo]_vars

-----------------------------------------------------------------------------
(* Properties *)

\* artifact, storage slot, internal git directory and .gitmodules section of
\* a registered package are all present
AllPresent(w, loc) ==
    /\ Registered(w, loc)
    /\ PathExists(w, loc)
    /\ w.slot[IdentOf(loc)].tree # 0
    /\ w.internal[IdentOf(loc)].head # 0
    /\ w.gitmodules.exists
    /\ IdentOf(loc) \in w.gitmodules.sections

SingleDeletions == {"slot", "gitmodules", "section", "internal"}

\* the last two events: one piece of a fully installed package (all other
\* registered packages fully installed too) was deleted, then an install pass ran
RepairedAfter(kinds) ==
    /\ hist.last.op = "install"
    /\ hist.prev.op = "drift"
    /\ hist.prev.kind \in kinds
    /\ hist.prev.full

\* C1: after the storage slot, the .gitmodules entry or the internal git
\* directory of a fully installed package is deleted, one install pass ends with
\* artifact, slot, internal directory and .gitmodules section present again.
C1_DriftRepair ==
    RepairedAfter(SingleDeletions) => AllPresent(Cur, hist.prev.loc)

\* the pass that followed the deletion reinstalled the package and completed
RepairRan(kinds) ==
    /\ RepairedAfter(kinds)
    /\ hist.last.err = None
    /\ hist.prev.loc \in hist.last.calls

\* C2 as stated: the repairing pass leaves the slot at the commit it held before
\* the deletion, whatever the remote holds.
C2_SameContent ==
    RepairRan(SingleDeletions) =>
        slot[IdentOf(hist.prev.loc)].tree = hist.prev.tree

\* C2 as amended: after the deletion of the slot the repair restores the commit
\* held before; after the deletion of .gitmodules or of the internal directory
\* the repair fetches again and the slot holds the remote's commit.
C2_RepairContent ==
    RepairRan(SingleDeletions) =>
        IF hist.prev.kind = "slot"
        THEN slot[IdentOf(hist.prev.loc)].tree = hist.prev.tree
        ELSE slot[IdentOf(hist.prev.loc)].tree
                = upstream[RecordedPkg(Cur, hist.prev.loc).url]

C2_Witness ==
    /\ RepairRan({"gitmodules", "internal"})
    /\ slot[IdentOf(hist.prev.loc)].tree # hist.prev.tree

Files == <<disk, art, slot, internal, gitmodules>>

\* C3: a second uninstall_package of the same package raises nothing and leaves
\* config, filesystem and .gitmodules as the first call left them.
C3_UninstallIdempotent ==
    [][(/\ hist.last.op = "uninstall"
        /\ hist'.last.op = "uninstall"
        /\ hist'.last.loc = hist.last.loc)
       => (hist'.last.err = None /\ UNCHANGED Files)]_vars

\* no piece of the package at loc is left
NoTrace(w, loc) ==
    /\ ~Registered(w, loc)
    /\ w.art[loc].kind = "none"
    /\ w.slot[IdentOf(loc)].tree = 0
    /\ w.internal[IdentOf(loc)].head = 0
    /\ IdentOf(loc) \notin w.gitmodules.sections

\* C4: after uninstall_package has returned, artifact, slot, internal directory,
\* .gitmodules section and config entry of the package are all absent.
C4_UninstallRemovesAll ==
    (hist.last.op = "uninstall" /\ hist.last.err = None)
        => NoTrace(Cur, hist.last.loc)

\* C5: an add of a name registered in the destination with another URL fails with
\* PackageUrlChangedError and changes nothing.
C5_ImmutableUrl ==
    [][(/\ hist'.last.op = "add"
        /\ hist'.last.loc # NoLoc
        /\ Registered(Cur, hist'.last.loc)
        /\ RecordedPkg(Cur, hist'.last.loc).url # hist'.last.pkg.url)
       => (hist'.last.err = "PackageUrlChangedError" /\ UNCHANGED Files)]_vars

C5_Witness ==
    /\ hist.last.op = "add"
    /\ hist.last.err = "PackageUrlChangedError"
    /\ FullyInstalled(Cur, hist.last.loc)

\* C6: an add that fails with PackageRootDirNotFoundError leaves no config entry
\* for the package and nothing at its install location.
C6_RootRollback ==
    (hist.last.op = "add" /\ hist.last.err = "PackageRootDirNotFoundError")
        => (/\ ~Registered(Cur, hist.last.loc)
            /\ art[hist.last.loc].kind = "none")

\* C7: an add of the recorded spec of a fully installed package fails with
\* PackageAlreadyInstalledError and changes nothing.
C7_AlreadyInstalled ==
    [][(/\ hist'.last.op = "add"
        /\ hist'.last.loc # NoLoc
        /\ FullyInstalled(Cur, hist'.last.loc)
        /\ RecordedPkg(Cur, hist'.last.loc) = hist'.last.pkg)
       => (hist'.last.err = "PackageAlreadyInstalledError" /\ UNCHANGED Files)]_vars

C7_Witness ==
    /\ hist.last.op = "add"
    /\ hist.last.err = "PackageAlreadyInstalledError"
    /\ hist.last.loc = <<"vendor", "depA">>
    /\ FullyInstalled(Cur, <<"vendor", "depA">>)
    /\ FullyInstalled(Cur, <<"libs", "depA">>)

\* C8: an install pass that follows a completed install pass installs nothing,
\* completes, and leaves config, artifacts, slots, internal directories and
\* .gitmodules as they are.
C8_InstallIdempotent ==
    [][(/\ hist.last.op = "install"
        /\ hist.last.err = None
        /\ hist'.last.op = "install")
       => (/\ hist'.last.calls = {}
           /\ hist'.last.err = None
           /\ UNCHANGED Files)]_vars

C8_Witness ==
    /\ hist.last.op = "install"
    /\ hist.prev.op = "install"
    /\ hist.prev.err = None
    /\ hist.prev.calls # {}

\* C9: after the process was terminated within install_package of a package
\* (whose packageRoot exists in the repository), an install pass ends with the
\* package registered and fully installed.
C9_CrashResume ==
    (/\ hist.last.op = "install"
     /\ hist.prev.op = "kill"
     /\ hist.prev.pkg.package_root \in ExistingRoots)
        => (Registered(Cur, hist.prev.loc) /\ FullyInstalled(Cur, hist.prev.loc))

\* C10: whenever install_package is interrupted while it works on a package
\* that had an entry, the persisted document still has an entry for it.
C10_ReplaceAtomic ==
    (hist.last.op = "kill" /\ hist.last.reg) => Registered(Cur, hist.last.loc)

\* C11: a pass that completed leaves, at the location of every package it
\* installed, a real directory when the recorded installMethod is copy and a
\* symbolic link when it is link or unset.
C11_MethodDecidesArtifact ==
    (hist.last.op = "install" /\ hist.last.err = None) =>
        \A l \in hist.last.calls :
            Registered(Cur, l) =>
                art[l].kind = IF RecordedPkg(Cur, l).install_method = "copy"
                              THEN "dir" ELSE "link"

\* the last two events: the packageRoot recorded for a fully installed package
\* (every registered package fully installed) was edited to another directory
\* of the repository, then an install pass ran
RootEdited ==
    /\ hist.last.op = "install"
    /\ hist.prev.op = "edit"
    /\ hist.prev.full
    /\ hist.prev.pkg.package_root # hist.prev.kind

\* C20: after the recorded packageRoot of an installed package was edited to
\* another existing directory, the install pass leaves the artifact a link to
\* the new packageRoot that resolves.
C20_RootEditApplied ==
    RootEdited =>
        /\ art[hist.prev.loc] =
              LinkArt(IdentOf(hist.prev.loc), hist.prev.pkg.package_root)
        /\ PathExists(Cur, hist.prev.loc)

\* the same for packages that pin no branch
C20_RootEditAppliedNoBranch ==
    (RootEdited /\ hist.prev.pkg.branch = None) =>
        /\ art[hist.prev.loc] =
              LinkArt(IdentOf(hist.prev.loc), hist.prev.pkg.package_root)
        /\ PathExists(Cur, hist.prev.loc)

\* C12: no two registered destinations share a name, and no two share a path
\* (paths are stored relative to the project root, so equal stored paths are
\* the same absolute path).
C12_DestinationsUnique ==
    \A i, j \in DOMAIN disk.destinations :
        i # j => /\ disk.destinations[i].name # disk.destinations[j].name
                 /\ disk.destinations[i].path # disk.destinations[j].path

\* C13: each destination's package sequence in the config document holds at
\* most one entry per package name.
C13_NamesUnique ==
    \A d \in ConfigNames :
        \A i, j \in DOMAIN disk.packages[d] :
            i # j => disk.packages[d][i].name # disk.packages[d][j].name

\* depA was added again with a changed packageRoot next to depB: its entry was
\* removed and appended anew
C13_Witness ==
    /\ hist.last.op = "add"
    /\ hist.last.err = None
    /\ hist.last.pkg.package_root = "sub"
    /\ Len(disk.packages["libs"]) = 2
    /\ disk.packages["libs"][1].name = "depB"
    /\ disk.packages["libs"][2] = hist.last.pkg

\* C14: every destination name under which the config document records at
\* least one package is the name of a registered destination.
C14_PackagesHaveDestination ==
    \A d \in ConfigNames :
        Len(disk.packages[d]) > 0 =>
            \E i \in DOMAIN disk.destinations : disk.destinations[i].name = d

C14_Witness ==
    /\ Len(disk.packages["libs"]) > 0
    /\ Len(disk.packages["vendor"]) > 0
    /\ hist.last.op = "add"

\* a mutating operation leaves the in-memory Config equal to the document, and
\* when it raises, both as they were
Persisted(w, v) ==
    /\ v.config = v.disk
    /\ v.err # None => (v.config = w.config /\ v.disk = w.disk)

\* C15: add_destination, add_package and remove_package, applied in any state
\* the commands reach, leave the in-memory Config equal to the persisted
\* document and leave both unchanged when they raise; every command built on
\* them (add, install, uninstall) ends with the two equal.
C15_PersistOnMutation ==
    /\ hist.last.sync
    /\ \A name \in DestNames :
          /\ Persisted(Cur, add_destination(Cur, name, name))
          /\ \A pkg \in AddSpecs :
                /\ Persisted(Cur, add_package(Cur, Destination(name, name), pkg))
                /\ Persisted(Cur, remove_package(Cur, Destination(name, name), pkg))

\* an add that registered the package and rolled the entry back again
C15_Witness ==
    /\ hist.last.op = "add"
    /\ hist.last.err = "PackageRootDirNotFoundError"
    /\ hist.last.sync
    /\ ~Registered(Cur, hist.last.loc)
    /\ \E l \in Locations : Registered(Cur, l)

\* the two implementations of `add`: cmd_add and CLI.command_add
AddOps == {"add", "command_add"}

\* C16: an add without a destination, while more than one destination is
\* registered, fails with AmbiguousDestinationError and changes neither the
\* config document nor any file.
C16_AmbiguousAdd ==
    [][(/\ hist'.last.op \in AddOps
        /\ hist'.last.dest = None
        /\ Len(disk.destinations) > 1)
       => (hist'.last.err = "AmbiguousDestinationError" /\ UNCHANGED Files)]_vars

\* the locations at which a package of this name is registered
Holders(w, name) == {l \in RegisteredLocs(w) : l[2] = name}

\* C17: remove <name> without a destination, the name being registered in more
\* than one destination, fails with AmbiguousDestinationError and changes
\* nothing.
C17_AmbiguousRemove ==
    [][(/\ hist'.last.op = "remove"
        /\ hist'.last.dest = None
        /\ Cardinality(Holders(Cur, hist'.last.pkg.name)) > 1)
       => (hist'.last.err = "AmbiguousDestinationError" /\ UNCHANGED Files)]_vars

\* C18: remove <dest>/<name> or remove <name> --dest-name <dest>, the name being
\* registered in <dest> and in another destination, ends with the package of
\* <dest> unregistered and its artifact gone, and with the package of every
\* other destination registered and its artifact as before.
C18_TargetedRemove ==
    [][\A d \in DestNames, name \in PkgNames :
        (/\ hist'.last.op = "remove"
         /\ hist'.last.dest = d
         /\ hist'.last.pkg.name = name
         /\ <<d, name>> \in Holders(Cur, name)
         /\ Cardinality(Holders(Cur, name)) > 1)
        => (/\ (~Registered(Cur, <<d, name>>))'
            /\ art'[<<d, name>>] = NoArt
            /\ \A l \in Holders(Cur, name) \ {<<d, name>>} :
                  (Registered(Cur, l))' /\ art'[l] = art[l])]_vars

\* the destination an add without --dest-name, run in cwd, is to use
DefaultDest(cwd) ==
    IF Len(disk.destinations) = 0 THEN Destination(DirName(cwd), cwd)
    ELSE disk.destinations[1]

\* C19: an add without --dest-name that completes: with no destination
\* registered, the working directory becomes the one destination, named after
\* the directory, and the package is recorded and fully installed under it;
\* with one destination registered, the destinations stay as they are and the
\* package is recorded and fully installed under that destination.
C19_DefaultDestination ==
    [][\A cwd \in DestPaths, l \in Locations :
        (/\ hist'.last.op \in AddOps
         /\ hist'.last.dest = None
         /\ hist'.last.err = None
         /\ hist'.last.kind = cwd
         /\ Len(disk.destinations) < 2
         /\ l = <<DefaultDest(cwd).path, hist'.last.pkg.name>>)
        => (/\ disk'.destinations = <<DefaultDest(cwd)>>
            /\ hist'.last.loc = l
            /\ (FullyInstalled(Cur, l))'
            /\ (RecordedPkg(Cur, l))' = hist'.last.pkg)]_vars

\* an add from the project root registered the root as destination, a later
\* add from another directory used it
C19_Witness ==
    /\ hist.last.op \in AddOps
    /\ hist.last.dest = None
    /\ hist.last.err = None
    /\ hist.last.kind = Cwd
    /\ disk.destinations = <<Destination(RootName, RootPath)>>
    /\ FullyInstalled(Cur, <<RootPath, "depA">>)
    /\ FullyInstalled(Cur, <<RootPath, "depB">>)

\* the packages an update event was asked to process
Processed(w, ev) ==
    {l \in RegisteredLocs(w) : ev.pkg.name \in {None, l[2]}}

\* C21: an update without force leaves the storage slot of every package with
\* updates disabled as it is, and leaves the slot of every processed package
\* with updates enabled (and no local modifications) at the latest commit of
\* its remote.
C21_UpdateHonoursDisabled ==
    [][(hist'.last.op = "update" /\ ~hist'.last.force) =>
        \A l \in RegisteredLocs(Cur) :
            IF RecordedPkg(Cur, l).updates_disabled
            THEN slot'[IdentOf(l)] = slot[IdentOf(l)]
            ELSE (l \in Processed(Cur, hist'.last) /\ ~slot[IdentOf(l)].dirty)
                    => slot'[IdentOf(l)].tree = upstream[RecordedPkg(Cur, l).url]
      ]_vars

\* one pass left depA (updates disabled) behind its remote and advanced depB
C21_Witness ==
    /\ hist.last.op = "update"
    /\ ~hist.last.force
    /\ hist.last.err = None
    /\ hist.last.calls = {<<Cwd, "depA">>, <<Cwd, "depB">>}
    /\ RecordedPkg(Cur, <<Cwd, "depA">>).updates_disabled
    /\ RecordedPkg(Cur, <<Cwd, "depB">>).url = "urlA"
    /\ slot[IdentOf(<<Cwd, "depA">>)].tree = 1
    /\ slot[IdentOf(<<Cwd, "depB">>)].tree = 2
    /\ upstream["urlA"] = 2

\* C22: an update without force changes no storage slot whose working tree
\* holds local modifications or untracked files; an update with force discards
\* the modifications of the packages it processes and changes no slot of any
\* other package.
C22_UpdateKeepsLocalWork ==
    [][hist'.last.op = "update" =>
        \A l \in RegisteredLocs(Cur) :
            /\ (slot[IdentOf(l)].dirty /\ ~hist'.last.force)
                  => slot'[IdentOf(l)] = slot[IdentOf(l)]
            /\ (hist'.last.force /\ l \notin Processed(Cur, hist'.last))
                  => slot'[IdentOf(l)] = slot[IdentOf(l)]
            /\ (hist'.last.force /\ l \in Processed(Cur, hist'.last))
                  => ~slot'[IdentOf(l)].dirty
      ]_vars

\* an update without force met a modified working tree behind its remote and
\* left it alone
C22_Witness ==
    /\ hist.last.op = "update"
    /\ ~hist.last.force
    /\ hist.last.err = None
    /\ <<Cwd, "depB">> \in hist.last.calls
    /\ slot[IdentOf(<<Cwd, "depB">>)].dirty
    /\ slot[IdentOf(<<Cwd, "depB">>)].tree
          < upstream[RecordedPkg(Cur, <<Cwd, "depB">>).url]

\* two identities computed for the same destination path and package name
SameIdentInputs ==
    /\ hist.last.op = "ident"
    /\ hist.prev.op = "ident"
    /\ hist.last.loc = hist.prev.loc

\* C23: two computations of the identity for equal destination path and equal
\* package name give the same identifier, whichever process computes it and
\* wherever the project root lies.
C23_IdentityPure ==
    SameIdentInputs => hist.last.ident = hist.prev.ident

\* the same for two processes in one checkout: destination name, url and the
\* other fields of the package do not enter the identifier
C23_IdentitySameRoot ==
    (SameIdentInputs /\ hist.last.kind = hist.prev.kind)
        => hist.last.ident = hist.prev.ident

\* GitComposerRepo.is_corrupted: the .git of the slot is a gitdir pointer file
\* and the directory it names does not exist
CorruptedSlot(w, ident) ==
    /\ w.slot[ident].tree # 0
    /\ w.slot[ident].git = "file"
    /\ w.internal[ident].head = 0

\* the commands of the tool, and the errors they report (GitPkgError, fatal)
Commands == {"dest", "add", "command_add", "remove", "uninstall", "install"}

ReportedErrors ==
    {"DestinationWithNameAlreadyExistsError",
     "DestinationWithPathAlreadyExistsError", "PkgHasAlreadyBeenAddedError",
     "UnknownPackageError", "PackageUrlChangedError",
     "PackageAlreadyInstalledError", "PackageRootDirNotFoundError",
     "AmbiguousDestinationError", "CouldNotFindDestinationError", "fatal"}

Completed(ev) == ev.op \in Commands /\ ev.err \in ReportedErrors \cup {None}

\* C24: a command that completes, successfully or with a reported error,
\* leaves no storage slot with a gitdir pointer to a missing internal git
\* directory, unless that slot was in this state before the command.
C24_NeverCorrupted ==
    [][Completed(hist'.last) =>
        \A i \in Idents :
            (CorruptedSlot(Cur, i))' => CorruptedSlot(Cur, i)]_vars

\* C24 for the commands alone: no slot is ever corrupted
C24_CommandsNeverCorrupt ==
    \A i \in Idents : ~CorruptedSlot(Cur, i)

\* an install pass met a slot whose internal git directory had been deleted
\* and left it with a pointer to an existing one
C24_Witness ==
    /\ hist.last.op = "install"
    /\ hist.last.err = None
    /\ hist.prev.op = "drift"
    /\ hist.prev.kind = "internal"
    /\ slot[IdentOf(hist.prev.loc)].git = "file"
    /\ internal[IdentOf(hist.prev.loc)].head # 0

\* an add that completed: install_package returned without error
Installed(ev) == ev.op \in AddOps /\ ev.err = None /\ ev.loc # NoLoc

\* C25: the artifact a successful install (link method) creates is a symbolic
\* link whose stored target is a relative path and resolves to the existing
\* packageRoot subpath of the package's storage slot.
C25_RelativeLink ==
    Installed(hist.last) =>
        /\ art[hist.last.loc].kind = "link"
        /\ ~art[hist.last.loc].absolute
        /\ art[hist.last.loc].ident = IdentOf(hist.last.loc)
        /\ art[hist.last.loc].root = hist.last.pkg.package_root
        /\ SubpathExists(Cur, IdentOf(hist.last.loc), hist.last.pkg.package_root)

\* the same without the form of the stored target
C25_LinkResolves ==
    Installed(hist.last) =>
        /\ art[hist.last.loc].kind = "link"
        /\ art[hist.last.loc].ident = IdentOf(hist.last.loc)
        /\ art[hist.last.loc].root = hist.last.pkg.package_root
        /\ SubpathExists(Cur, IdentOf(hist.last.loc), hist.last.pkg.package_root)

\* C26: whenever install_package has returned without error (called by add,
\* or by an install pass that completed), the package is registered and its
\* artifact, storage slot, internal git directory and .gitmodules section are
\* present.
C26_InstallPostcondition ==
    /\ Installed(hist.last) => AllPresent(Cur, hist.last.loc)
    /\ (hist.last.op = "install" /\ hist.last.err = None)
          => \A l \in hist.last.calls : AllPresent(Cur, l)

\* the same without the .gitmodules section
C26_InstallPostconditionNoSection ==
    /\ Installed(hist.last) =>
          /\ Registered(Cur, hist.last.loc)
          /\ PathExists(Cur, hist.last.loc)
          /\ slot[IdentOf(hist.last.loc)].tree # 0
          /\ internal[IdentOf(hist.last.loc)].head # 0
          /\ gitmodules.exists
    /\ (hist.last.op = "install" /\ hist.last.err = None)
          => \A l \in hist.last.calls :
                /\ Registered(Cur, l)
                /\ PathExists(Cur, l)
                /\ slot[IdentOf(l)].tree # 0
                /\ internal[IdentOf(l)].head # 0
                /\ gitmodules.exists

\* the specs that differ from the recorded one of loc in packageRoot,
\* updatesDisabled, branch or installMethod (same name, same url)
Redeclared(w, loc) ==
    {pkg \in {[RecordedPkg(w, loc) EXCEPT
                  !.package_root = root, !.updates_disabled = ud,
                  !.branch = branch, !.install_method = method] :
                root \in ExistingRoots, ud \in BOOLEAN,
                branch \in {None, "dev"}, method \in {None, "link", "copy"}} :
        pkg # RecordedPkg(w, loc)}

\* has_pkg_been_changed gives True for every spec that differs from the
\* recorded one in one of the four fields, whatever the filesystem holds
DeclaredDiffers ==
    \A l \in RegisteredLocs(Cur) :
        \A pkg \in Redeclared(Cur, l) :
            has_pkg_been_changed(Cur, DestAtPath(Cur, l[1]), pkg) = "True"

\* has_pkg_been_changed as the install pass calls it for the package at loc:
\* with the entry of the config document
PassDetects(w, loc) ==
    has_pkg_been_changed(w, DestAtPath(w, loc[1]), RecordedPkg(w, loc))

\* C27: for a registered package and the same URL, has_pkg_been_changed gives
\* True whenever the declared spec differs from the recorded one in
\* packageRoot, updatesDisabled, branch or installMethod, whatever the
\* filesystem holds; and it gives True in the install pass that follows an
\* edit of one of these fields in the config document.
C27_ConfigDrift ==
    /\ DeclaredDiffers
    /\ hist.last.op = "edit" => PassDetects(Cur, hist.last.loc) = "True"

\* C27 for a spec handed to the detector next to the recorded one (as add
\* does)
C27_DeclaredDiffers == DeclaredDiffers

\* the slot of the package at loc can be read and is not on another branch
\* than the pinned one
NoBranchMismatch(w, loc) ==
    \/ RecordedPkg(w, loc).branch = None
    \/ active_branch(w, IdentOf(loc)) = RecordedPkg(w, loc).branch

\* the install location is no symbolic link, or one to another place than
\* <slot>/<packageRoot>
ArtifactDrift(w, loc) ==
    \/ ~IsSymlink(w, loc)
    \/ <<w.art[loc].ident, w.art[loc].root>>
          # <<IdentOf(loc), RecordedPkg(w, loc).package_root>>

\* C28: for a registered package, the recorded spec and no branch mismatch,
\* has_pkg_been_changed gives True exactly when the install location is no
\* symbolic link or links elsewhere than <slot>/<packageRoot>, if installMethod
\* is link or unset; it gives False if installMethod is copy.
C28_ArtifactDrift ==
    \A l \in RegisteredLocs(Cur) :
        NoBranchMismatch(Cur, l) =>
            PassDetects(Cur, l) =
                IF RecordedPkg(Cur, l).install_method \in {None, "link"}
                THEN BoolStr(ArtifactDrift(Cur, l))
                ELSE "False"

\* C28 for installMethod link or unset alone
C28_LinkDrift ==
    \A l \in RegisteredLocs(Cur) :
        (/\ NoBranchMismatch(Cur, l)
         /\ RecordedPkg(Cur, l).install_method \in {None, "link"})
            => PassDetects(Cur, l) = BoolStr(ArtifactDrift(Cur, l))

\* the slot of the package at loc can be read and is on another branch than
\* the one the recorded spec pins
BranchMismatch(w, loc) ==
    /\ RecordedPkg(w, loc).branch # None
    /\ active_branch(w, IdentOf(loc)) \notin GitErrors
    /\ active_branch(w, IdentOf(loc)) # RecordedPkg(w, loc).branch

C30_BranchCorrected ==
    (hist.last.op = "install" /\ hist.last.err = None) =>
        \A l \in RegisteredLocs(Cur) :
            RecordedPkg(Cur, l).branch # None =>
                active_branch(Cur, IdentOf(l)) = RecordedPkg(Cur, l).branch

\* C31: an add of a package that pins a branch of the remote, with nothing of
\* the package on disk yet (no storage slot, no internal directory, no
\* artifact) and no entry with another URL, completes with the package fully
\* installed and its slot on the pinned branch.
C31_FirstInstallPinned ==
    [][\A l \in Locations :
        (/\ hist'.last.op \in AddOps
         /\ hist'.last.loc = l
         /\ hist'.last.pkg.branch \in RemoteBranches
         /\ hist'.last.pkg.package_root \in ExistingRoots
         /\ slot[IdentOf(l)].tree = 0
         /\ internal[IdentOf(l)].head = 0
         /\ art[l].kind = "none"
         /\ (Registered(Cur, l) => RecordedPkg(Cur, l).url = hist'.last.pkg.url))
        => (/\ hist'.last.err = None
            /\ (FullyInstalled(Cur, l))'
            /\ (active_branch(Cur, IdentOf(l)))' = hist'.last.pkg.branch)]_vars

\* the calls install_package(destination, pkg) that can be made in a state:
\* for a registered destination, with a spec handed to add or with the
\* recorded spec of a registered package
InstallCalls(w) ==
    {<<w.config.destinations[i], pkg>> :
        i \in DOMAIN w.config.destinations, pkg \in AddSpecs}
    \cup {<<DestAtPath(w, l[1]), RecordedPkg(w, l)>> : l \in RegisteredLocs(w)}

\* the internal git directory of the package exists and .gitmodules does not
Orphaned(w, ident) == w.internal[ident].head # 0 /\ ~w.gitmodules.exists

\* C32: install_package for a package whose internal git directory exists
\* while .gitmodules is absent touches no internal directory of another
\* package, and when it returns without error the package's slot and internal
\* directory are those of a fresh submodule of the remote (at the remote's
\* commit, on the pinned or default branch) with its section in .gitmodules.
C32_OrphanDiscard ==
    \A c \in InstallCalls(Cur) :
        LET ident == _package_ident(c[1], c[2])
            v == install_package(Cur, c[1], c[2])
        IN Orphaned(Cur, ident) =>
              /\ \A j \in Idents \ {ident} : v.internal[j] = internal[j]
              /\ v.err = None =>
                    /\ v.slot[ident] = PointerSlot(upstream[c[2].url])
                    /\ v.internal[ident] =
                          InternalDir(upstream[c[2].url],
                                      IF c[2].branch = None THEN DefaultBranch
                                      ELSE c[2].branch)
                    /\ ident \in v.gitmodules.sections

\* .gitmodules was deleted while the remote had moved on; the install pass
\* discarded the internal directory and fetched the package anew
C32_Witness ==
    /\ RepairRan({"gitmodules"})
    /\ hist.prev.tree = 1
    /\ slot[IdentOf(hist.prev.loc)] = PointerSlot(2)
    /\ internal[IdentOf(hist.prev.loc)].head = 2
    /\ IdentOf(hist.prev.loc) \in gitmodules.sections

\* C33: install_package for a package whose internal git directory exists
\* while .gitmodules exists, when it returns without error, leaves the slot a
\* working tree at the commit of the internal directory with a gitdir pointer
\* to it, and leaves every internal directory and .gitmodules unchanged (no
\* submodule is created, nothing comes from the remote).
C33_LocalRehydration ==
    \A c \in InstallCalls(Cur) :
        LET ident == _package_ident(c[1], c[2])
            v == install_package(Cur, c[1], c[2])
        IN (internal[ident].head # 0 /\ gitmodules.exists /\ v.err = None) =>
              /\ v.slot[ident] = PointerSlot(internal[ident].head)
              /\ v.internal = internal
              /\ v.gitmodules = gitmodules

\* the slot was deleted after the remote had moved on; the install pass
\* rebuilt it at the commit of the internal directory
C33_Witness ==
    /\ RepairRan({"slot"})
    /\ slot[IdentOf(hist.prev.loc)] = PointerSlot(1)
    /\ internal[IdentOf(hist.prev.loc)].head = 1
    /\ upstream[RecordedPkg(Cur, hist.prev.loc).url] = 2

\* what unlink() and symlink_to() raise on an artifact they cannot replace
ArtifactErrors == {"IsADirectoryError", "FileExistsError"}

InstallOps == AddOps \cup {"install"}

\* C34: no add and no install pass fails on what sits at an install location
\* (a link, a dangling link, a real directory), and after a successful add the
\* location holds the link to <slot>/<packageRoot> of the spec just installed.
C34_ArtifactReplaced ==
    /\ hist.last.op \in InstallOps => hist.last.err \notin ArtifactErrors
    /\ Installed(hist.last) =>
          art[hist.last.loc] =
              LinkArt(IdentOf(hist.last.loc), hist.last.pkg.package_root)

\* the same while no install location holds a real directory
C34_LinksReplaced ==
    [][(/\ hist'.last.op \in InstallOps
        /\ \A l \in Locations : art[l].kind # "dir")
       => (/\ hist'.last.err \notin ArtifactErrors
           /\ Installed(hist'.last) =>
                 \A l \in Locations :
                     l = hist'.last.loc =>
                         art'[l] = LinkArt(IdentOf(l),
                                           hist'.last.pkg.package_root))]_vars

\* config entry, artifact, storage slot, internal git directory and
\* .gitmodules section of every location but loc are in v as they are in w
OthersUntouched(w, v, loc) ==
    \A l \in Locations \ {loc} :
        /\ Registered(v, l) = Registered(w, l)
        /\ Registered(w, l) => RecordedPkg(v, l) = RecordedPkg(w, l)
        /\ v.art[l] = w.art[l]
        /\ v.slot[IdentOf(l)] = w.slot[IdentOf(l)]
        /\ v.internal[IdentOf(l)] = w.internal[IdentOf(l)]
        /\ (IdentOf(l) \in v.gitmodules.sections)
              = (IdentOf(l) \in w.gitmodules.sections)

\* C35: install_package(destination, pkg), whether it returns or raises,
\* leaves config entry, artifact, storage slot, internal git directory and
\* .gitmodules section of every other (destination, package) pair as they are.
C35_InstallFrame ==
    \A c \in InstallCalls(Cur) :
        OthersUntouched(Cur, install_package(Cur, c[1], c[2]),
                        package_install_location(c[1], c[2]))

\* depA was installed in vendor next to the installed depA of libs
C35_Witness ==
    /\ hist.last.op = "add"
    /\ hist.last.err = None
    /\ hist.last.loc = <<"vendor", "depA">>
    /\ FullyInstalled(Cur, <<"vendor", "depA">>)
    /\ FullyInstalled(Cur, <<"libs", "depA">>)

\* the calls uninstall_package can be given in w: a destination of the config
\* with the package recorded under a name, or a description of that name
UninstallCalls(w) ==
    {<<DestAtPath(w, l[1]),
       IF Registered(w, l) THEN RecordedPkg(w, l)
       ELSE PkgConfig(l[2], "urlA", ".", None)>> :
        l \in {k \in Locations : DestAtPath(w, k[1]) # NoDest}}

WithoutName(s, name) == SelectSeq(s, LAMBDA p : p.name # name)

\* C36: uninstall_package(destination, pkg) leaves config entry, artifact,
\* storage slot, internal git directory and .gitmodules section of every
\* other package as they are, keeps the other entries of each destination
\* in their order, and deletes .gitmodules only when no section remains.
C36_UninstallFrame ==
    \A c \in UninstallCalls(Cur) :
        LET v == uninstall_package(Cur, c[1], c[2])
            ident == _package_ident(c[1], c[2])
        IN /\ OthersUntouched(Cur, v, package_install_location(c[1], c[2]))
           /\ \A d \in ConfigNames :
                WithoutName(v.config.packages[d],
                            IF d = c[1].name THEN c[2].name ELSE None)
                  = WithoutName(disk.packages[d],
                                IF d = c[1].name THEN c[2].name ELSE None)
           /\ v.disk.packages = v.config.packages
           /\ (gitmodules.exists /\ ~v.gitmodules.exists)
                => gitmodules.sections \ {ident} = {}
           /\ (gitmodules.exists /\ v.err = None
                 /\ gitmodules.sections \ {ident} # {})
                => v.gitmodules.exists

\* depA, recorded before depB in libs, was uninstalled; depB is as it was
C36_Witness ==
    /\ hist.last.op = "uninstall"
    /\ hist.last.err = None
    /\ hist.last.loc = <<"libs", "depA">>
    /\ ~Registered(Cur, <<"libs", "depA">>)
    /\ art[<<"libs", "depA">>] = NoArt
    /\ FullyInstalled(Cur, <<"libs", "depB">>)
    /\ gitmodules.sections = {IdentOf(<<"libs", "depB">>)}

\* C37: when install_package finds the package changed, its entry ends up
\* last in the sequence of its destination and the other entries keep their
\* order; when it finds a recorded package not changed, the sequence is not
\* altered.
C37_ReinstallPosition ==
    \A c \in InstallCalls(Cur) :
        LET d == InstallPrefix(Cur, c[1], c[2], 2)
            v == install_package(Cur, c[1], c[2])
            s0 == disk.packages[c[1].name]
            s == v.config.packages[c[1].name]
        IN d.err = None =>
             /\ v.disk.packages = v.config.packages
             /\ IF d.changed
                THEN /\ Len(s) > 0
                     /\ s[Len(s)] = c[2]
                     /\ Len(WithoutName(s, c[2].name)) = Len(s) - 1
                     /\ WithoutName(s, c[2].name) = WithoutName(s0, c[2].name)
                ELSE has_package_been_added(Cur, c[1], c[2]) => s = s0

\* depA, recorded before depB in libs, was given a new packageRoot: both are
\* installed, depB is now first and the new depA entry is last
C37_Witness ==
    /\ hist.last.op = "add"
    /\ hist.last.err = None
    /\ hist.last.loc = <<"libs", "depA">>
    /\ hist.last.pkg.package_root = "sub"
    /\ FullyInstalled(Cur, <<"libs", "depA">>)
    /\ FullyInstalled(Cur, <<"libs", "depB">>)
    /\ disk.packages["libs"] = <<RecordedPkg(Cur, <<"libs", "depB">>), hist.last.pkg>>

\* C38: after an `add` that failed because the submodule could not be
\* created from the URL, the persisted config has no entry for the package
\* and nothing exists at its install location.
C38_FailedFetchRollback ==
    (hist.last.op = "add" /\ hist.last.err = "GitCommandError"
       /\ hist.last.pkg.url = MissingUrl)
      => /\ ~Registered(Cur, hist.last.loc)
         /\ art[hist.last.loc] = NoArt

\* the half of C38 about the install location
C38_NothingInstalled ==
    (hist.last.op = "add" /\ hist.last.err = "GitCommandError"
       /\ hist.last.pkg.url = MissingUrl)
      => /\ art[hist.last.loc] = NoArt
         /\ slot[IdentOf(hist.last.loc)] = NoSlot
         /\ internal[IdentOf(hist.last.loc)] = NoInternal

\* an `add` of a package that is recorded and fully installed at l, with the
\* recorded URL and a packageRoot the repository does not have
FailedReAdd(l) ==
    /\ hist'.last.op = "add"
    /\ hist'.last.loc = l
    /\ FullyInstalled(Cur, l)
    /\ hist'.last.pkg.url = RecordedPkg(Cur, l).url
    /\ hist'.last.pkg.package_root \notin ExistingRoots

\* C39: an `add` for a recorded and installed package with the same URL and
\* a packageRoot that does not exist fails with PackageRootDirNotFoundError,
\* and the recorded entry and the installed artifact are still there.
C39_FailedReAddKeeps ==
    [][\A l \in Locations :
         FailedReAdd(l) =>
            /\ hist'.last.err = "PackageRootDirNotFoundError"
            /\ (Registered(Cur, l))'
            /\ (RecordedPkg(Cur, l))' = RecordedPkg(Cur, l)
            /\ art'[l] = art[l]]_vars

\* the half of C39 about the error
C39_FailedReAddRaises ==
    [][\A l \in Locations :
         FailedReAdd(l) => hist'.last.err = "PackageRootDirNotFoundError"]_vars

====
